---- MODULE Spec2Model ----
(***************************************************************************)
(* Model of credential_checker.py: the CredentialChecker class (its        *)
(* configuration, its result list, the six probes, check_database and      *)
(* run_checks) and main().                                                 *)
(*                                                                         *)
(* A Python dict is a function whose domain is the set of keys it holds,   *)
(* so that a missing key is a key outside the DOMAIN; the parsed YAML      *)
(* document, whose keys are kept in file order, is a sequence of           *)
(* [key, val] pairs with distinct keys.                                    *)
(***************************************************************************)
EXTENDS Integers, Sequences, FiniteSets, TLC

VARIABLES
    file,        \* what is at config_path: whether it loads, and the parsed document
    config,      \* self.config
    results,     \* self.results
    pc,          \* position of the flow of control in main / run_checks
    svc,         \* index of the `for db_type in database_services` loop
    k,           \* index of the credential (password) loop
    calls,       \* probe invocations of the current run_checks call, in order
    lastProbe,   \* what the last probe call did to its connection
    errors,      \* service types reported by logger.error as unsupported
    runs,        \* one entry per run_checks call that returned
    base,        \* Len(self.results) when the current run_checks call began
    exitStatus   \* exit status of the process, NoStatus while it runs

vars == <<file, config, results, pc, svc, k, calls, lastProbe, errors, runs,
          base, exitStatus>>

----------------------------------------------------------------------------
(* Bounds of the configurations explored.                                  *)

MaxKeys == 2        \* service entries in one configuration document
MaxProbes == 3      \* candidate credentials in one configuration document

NoStatus == 0 - 1

\* The top-level keys a configuration document may hold: two database
\* types, the cache, and one key that names no supported service.
ConfigKeys == {"postgresql", "mongodb", "redis", "sqlite"}

\* Candidate credentials, in the order a document lists them.
Candidates ==
    << [username |-> "admin",    password |-> "admin"],
       [username |-> "postgres", password |-> "postgres"],
       [username |-> "root",     password |-> "root"],
       [username |-> "sa",       password |-> "sa"],
       [username |-> "guest",    password |-> "guest"] >>

CandidatePasswords == << "", "redis", "password", "admin", "guest" >>

HostOf(key) ==
    CASE key = "postgresql" -> "db.local"
      [] key = "mongodb"    -> "mongo.local"
      [] key = "redis"      -> "cache.local"
      [] OTHER              -> "lite.local"

PortOf(key) ==
    CASE key = "postgresql" -> 5432
      [] key = "mongodb"    -> 27017
      [] key = "redis"      -> 6379
      [] OTHER              -> 0

ListField(key) ==
    IF key = "redis" THEN "default_passwords" ELSE "default_credentials"

\* d without key f (a document in which the field was left out).
Drop(d, f) == [x \in DOMAIN d \ {f} |-> d[x]]

Prefix(s, n) == [i \in 1..n |-> s[i]]

Entry(key, n) ==
    IF key = "redis"
    THEN [host |-> HostOf(key), port |-> PortOf(key),
          default_passwords |-> Prefix(CandidatePasswords, n)]
    ELSE [host |-> HostOf(key), port |-> PortOf(key),
          default_credentials |-> Prefix(Candidates, n)]

RECURSIVE SumTo(_, _)
SumTo(f, n) == IF n = 0 THEN 0 ELSE f[n] + SumTo(f, n - 1)

KeySeqs ==
    UNION { { ks \in [1..n -> ConfigKeys] :
                \A i, j \in 1..n : i # j => ks[i] # ks[j] } : n \in 0..MaxKeys }

WellFormedDocs ==
    UNION { { [i \in 1..Len(ks) |-> [key |-> ks[i], val |-> Entry(ks[i], lens[i])]] :
                lens \in { l \in [1..Len(ks) -> 0..MaxProbes] :
                             SumTo(l, Len(ks)) <= MaxProbes } } :
            ks \in KeySeqs }

\* The documents obtained from doc by leaving out one connection field of
\* one entry, or the username or password of one credential.  The entry of
\* a key run_checks never looks up is left whole: nothing reads it.
DropEntryField(doc, i, f) ==
    [doc EXCEPT ![i].val = Drop(@, f)]

DropCredField(doc, i, j, f) ==
    [doc EXCEPT ![i].val.default_credentials[j] = Drop(@, f)]

Defective(doc) ==
    LET read == { i \in DOMAIN doc : doc[i].key # "sqlite" } IN
    { DropEntryField(doc, i, f) : i \in read, f \in {"host", "port"} }
    \cup { DropEntryField(doc, i, ListField(doc[i].key)) : i \in read }
    \cup UNION { UNION { { DropCredField(doc, i, j, f) : f \in {"username", "password"} } :
                         j \in DOMAIN doc[i].val[ListField(doc[i].key)] } :
                 i \in { x \in read : doc[x].key # "redis" } }

Documents == WellFormedDocs \cup UNION { Defective(doc) : doc \in WellFormedDocs }

----------------------------------------------------------------------------
(* Dict access.                                                            *)

Keys(cfg) == { cfg[i].key : i \in DOMAIN cfg }

\* `key in self.config`
In(key, cfg) == key \in Keys(cfg)

\* `self.config[key]`, for a key the document holds
Get(cfg, key) == cfg[CHOOSE i \in DOMAIN cfg : cfg[i].key = key].val

Has(d, f) == f \in DOMAIN d

----------------------------------------------------------------------------
(* The probes.  What the remote end does is the probe's input:             *)
(*   "accepted"     it is reached and takes the credential,                *)
(*   "rejected"     it is reached and refuses the credential,              *)
(*   "unreachable"  no connection is made (refused, no route, timeout).    *)
(* A probe yields [raised, ret, open]: raised tells whether an exception   *)
(* leaves the call, ret is the value returned otherwise, and open tells    *)
(* whether a connection the call made is still open when it returns.  A    *)
(* client the code leaves without close() is closed only if the            *)
(* interpreter happens to finalise it at the return: `collected`.          *)

Outcomes == {"accepted", "rejected", "unreachable"}

\* connect() either returns a connection, closed on the next line, or
\* raises, and `except Exception` turns that into False.
ConnectThenClose(outcome) ==
    IF outcome = "accepted"
    THEN [raised |-> FALSE, ret |-> TRUE, open |-> FALSE]
    ELSE [raised |-> FALSE, ret |-> FALSE, open |-> FALSE]

\* check_postgres with an except clause that lets a connection error
\* through.
check_postgres_Uncaught(outcome, collected) ==
    IF outcome = "accepted"
    THEN [raised |-> FALSE, ret |-> TRUE, open |-> FALSE]
    ELSE [raised |-> (outcome = "unreachable"), ret |-> FALSE, open |-> FALSE]

check_postgres(outcome, collected) == ConnectThenClose(outcome)

check_mysql(outcome, collected) == ConnectThenClose(outcome)

check_mssql(outcome, collected) == ConnectThenClose(outcome)

check_oracle(outcome, collected) == ConnectThenClose(outcome)

\* MongoClient(uri) builds the client; server_info() forces the connection
\* attempt and raises unless the server takes the credential; close() is
\* the statement after it, so an exception skips it.
check_mongodb(outcome, collected) ==
    IF outcome = "accepted"
    THEN [raised |-> FALSE, ret |-> TRUE, open |-> FALSE]
    ELSE [raised |-> FALSE, ret |-> FALSE, open |-> (outcome = "rejected" /\ ~collected)]

\* Redis(...) builds the client, ping() connects and authenticates; no
\* path of the method closes the client.
check_redis(outcome, collected) ==
    IF outcome = "accepted"
    THEN [raised |-> FALSE, ret |-> TRUE, open |-> ~collected]
    ELSE [raised |-> FALSE, ret |-> FALSE, open |-> (outcome = "rejected" /\ ~collected)]

\* The keys of check_methods.
CheckMethodKeys == {"postgresql", "mysql", "mongodb", "mssql", "oracle"}

check_methods(db_type, outcome, collected) ==
    CASE db_type = "postgresql" -> check_postgres(outcome, collected)
      [] db_type = "mysql"      -> check_mysql(outcome, collected)
      [] db_type = "mongodb"    -> check_mongodb(outcome, collected)
      [] db_type = "mssql"      -> check_mssql(outcome, collected)
      [] db_type = "oracle"     -> check_oracle(outcome, collected)

\* database_services with the document store moved to the front.
database_services_Reordered ==
    <<"mongodb", "postgresql", "mysql", "mssql", "oracle">>

database_services == <<"postgresql", "mysql", "mongodb", "mssql", "oracle">>

\* str.upper() on the service-type names.
Upper(db_type) ==
    CASE db_type = "postgresql" -> "POSTGRESQL"
      [] db_type = "mysql"      -> "MYSQL"
      [] db_type = "mongodb"    -> "MONGODB"
      [] db_type = "mssql"      -> "MSSQL"
      [] db_type = "oracle"     -> "ORACLE"
      [] db_type = "redis"      -> "REDIS"
      [] OTHER                  -> "SQLITE"

\* The dict check_database appends.
DbFinding(db_type, cfg, cred) ==
    [service |-> Upper(db_type), host |-> cfg.host, port |-> cfg.port,
     username |-> cred.username, password |-> cred.password]

\* The dict run_checks appends for the cache.
RedisFinding(cfg, password) ==
    [service |-> "Redis", host |-> cfg.host, port |-> cfg.port,
     password |-> password]

\* Record without the test of success.
Record_Always(res, success, finding) == Append(res, finding)

\* Record inserting at the front of the list.
Record_AtFront(res, success, finding) ==
    IF success THEN <<finding>> \o res ELSE res

\* `if success: self.results.append(finding)`
Record(res, success, finding) ==
    IF success THEN Append(res, finding) ELSE res

\* Advance leaving the loop at the first success.
Advance_BreakOnSuccess(i, success) ==
    IF success THEN i + MaxProbes + 1 ELSE i + 1

\* The next iteration of a `for` loop over a list.
Advance(i, success) == i + 1

NoProbe == [db_type |-> "none", outcome |-> "none", ret |-> FALSE, open |-> FALSE]

----------------------------------------------------------------------------
(* The program.                                                            *)

Init ==
    /\ file \in {[readable |-> FALSE, doc |-> <<>>]}
                \cup { [readable |-> TRUE, doc |-> d] : d \in Documents }
    /\ config = <<>>
    /\ results = <<>>
    /\ pc = "start"
    /\ svc = 0
    /\ k = 0
    /\ calls = <<>>
    /\ lastProbe = NoProbe
    /\ errors = {}
    /\ runs = <<>>
    /\ base = 0
    /\ exitStatus = NoStatus

\* CredentialChecker(args.config): _load_config either returns the parsed
\* document or logs and calls sys.exit(1).
Construct ==
    /\ pc = "start"
    /\ IF file.readable
       THEN /\ config' = file.doc
            /\ results' = <<>>
            /\ pc' = "constructed"
            /\ UNCHANGED exitStatus
       ELSE /\ pc' = "exited"
            /\ exitStatus' = 1
            /\ UNCHANGED <<config, results>>
    /\ UNCHANGED <<file, svc, k, calls, lastProbe, errors, runs, base>>

\* The entry of run_checks: self.results is used as it stands.
Enter ==
    /\ pc' = "for_db_type"
    /\ svc' = 1
    /\ k' = 0
    /\ calls' = <<>>
    /\ base' = Len(results)
    /\ UNCHANGED <<file, config, results, lastProbe, errors, runs, exitStatus>>

RunChecks ==
    /\ pc = "constructed"
    /\ Enter

\* The head of `for db_type in database_services`, the test
\* `db_type in self.config` and the evaluation of
\* db_config['default_credentials'].
ForDbType ==
    /\ pc = "for_db_type"
    /\ IF svc > Len(database_services)
       THEN /\ pc' = "if_redis"
            /\ UNCHANGED <<svc, k>>
       ELSE LET db_type == database_services[svc] IN
            IF ~In(db_type, config)
            THEN /\ svc' = svc + 1
                 /\ UNCHANGED <<pc, k>>
            ELSE IF ~Has(Get(config, db_type), "default_credentials")
                 THEN /\ pc' = "raised"
                      /\ UNCHANGED <<svc, k>>
                 ELSE /\ pc' = "for_cred"
                      /\ k' = 1
                      /\ UNCHANGED svc
    /\ UNCHANGED <<file, config, results, calls, lastProbe, errors, runs, base,
                   exitStatus>>

\* check_database(db_type, config, cred), called for the k-th credential.
check_database(db_type, cfg, cred) ==
    IF db_type \notin CheckMethodKeys
    THEN /\ errors' = errors \cup {db_type}
         /\ k' = Advance(k, FALSE)
         /\ UNCHANGED <<pc, results, calls, lastProbe>>
    ELSE IF ~(Has(cfg, "host") /\ Has(cfg, "port")
              /\ Has(cred, "username") /\ Has(cred, "password"))
         THEN /\ pc' = "raised"
              /\ UNCHANGED <<k, results, calls, lastProbe, errors>>
         ELSE \E outcome \in Outcomes, collected \in BOOLEAN :
                LET p == check_methods(db_type, outcome, collected) IN
                /\ lastProbe' = [db_type |-> db_type, outcome |-> outcome,
                                 ret |-> p.ret, open |-> p.open]
                /\ UNCHANGED errors
                /\ IF p.raised
                   THEN /\ pc' = "raised"
                        /\ UNCHANGED <<k, results, calls>>
                   ELSE /\ calls' = Append(calls,
                                 [db_type |-> db_type, host |-> cfg.host,
                                  port |-> cfg.port, cred |-> cred, ret |-> p.ret])
                        /\ results' = Record(results, p.ret,
                                             DbFinding(db_type, cfg, cred))
                        /\ k' = Advance(k, p.ret)
                        /\ UNCHANGED pc

\* One turn of `for cred in db_config['default_credentials']`.
ForCred ==
    /\ pc = "for_cred"
    /\ LET db_type == database_services[svc]
           db_config == Get(config, db_type)
           creds == db_config.default_credentials
       IN  IF k > Len(creds)
           THEN /\ pc' = "for_db_type"
                /\ svc' = svc + 1
                /\ UNCHANGED <<k, results, calls, lastProbe, errors>>
           ELSE /\ check_database(db_type, db_config, creds[k])
                /\ UNCHANGED svc
    /\ UNCHANGED <<file, config, runs, base, exitStatus>>

\* `if 'redis' in self.config` and the evaluation of
\* redis_config['default_passwords'].
IfRedis ==
    /\ pc = "if_redis"
    /\ IF ~In("redis", config)
       THEN /\ pc' = "return"
            /\ UNCHANGED k
       ELSE IF ~Has(Get(config, "redis"), "default_passwords")
            THEN /\ pc' = "raised"
                 /\ UNCHANGED k
            ELSE /\ pc' = "for_password"
                 /\ k' = 1
    /\ UNCHANGED <<file, config, results, svc, calls, lastProbe, errors, runs,
                   base, exitStatus>>

\* One turn of `for password in redis_config['default_passwords']`.
ForPassword ==
    /\ pc = "for_password"
    /\ LET redis_config == Get(config, "redis")
           passwords == redis_config.default_passwords
       IN  IF k > Len(passwords)
           THEN /\ pc' = "return"
                /\ UNCHANGED <<k, results, calls, lastProbe>>
           ELSE IF ~(Has(redis_config, "host") /\ Has(redis_config, "port"))
                THEN /\ pc' = "raised"
                     /\ UNCHANGED <<k, results, calls, lastProbe>>
                ELSE \E outcome \in Outcomes, collected \in BOOLEAN :
                       LET p == check_redis(outcome, collected) IN
                       /\ lastProbe' = [db_type |-> "redis", outcome |-> outcome,
                                        ret |-> p.ret, open |-> p.open]
                       /\ IF p.raised
                          THEN /\ pc' = "raised"
                               /\ UNCHANGED <<k, results, calls>>
                          ELSE /\ calls' = Append(calls,
                                        [db_type |-> "redis",
                                         host |-> redis_config.host,
                                         port |-> redis_config.port,
                                         cred |-> [password |-> passwords[k]],
                                         ret |-> p.ret])
                               /\ results' = Record(results, p.ret,
                                        RedisFinding(redis_config, passwords[k]))
                               /\ k' = Advance(k, p.ret)
                               /\ UNCHANGED pc
    /\ UNCHANGED <<file, config, svc, errors, runs, base, exitStatus>>

\* `return self.results`.  The caller receives the list object itself;
\* runs keeps the value it has at the return, with the calls of the run.
Return ==
    /\ pc = "return"
    /\ pc' = "returned"
    /\ runs' = Append(runs, [ret |-> results, calls |-> calls])
    /\ UNCHANGED <<file, config, results, svc, k, calls, lastProbe, errors,
                   base, exitStatus>>

\* main after run_checks returned: the report loop, then the end of the
\* script.
Report ==
    /\ pc = "returned"
    /\ pc' = "exited"
    /\ exitStatus' = 0
    /\ UNCHANGED <<file, config, results, svc, k, calls, lastProbe, errors,
                   runs, base>>

\* An exception raised under run_checks: nothing in run_checks or main
\* catches it, and the interpreter ends with status 1.
Uncaught ==
    /\ pc = "raised"
    /\ pc' = "exited"
    /\ exitStatus' = 1
    /\ UNCHANGED <<file, config, results, svc, k, calls, lastProbe, errors,
                   runs, base>>

Next ==
    \/ Construct
    \/ RunChecks
    \/ ForDbType
    \/ ForCred
    \/ IfRedis
    \/ ForPassword
    \/ Return
    \/ Report
    \/ Uncaught

Spec == Init /\ [][Next]_vars

\* The same, run to completion.
FairSpec == Spec /\ WF_vars(Next)

\* A caller that calls run_checks a second time on the checker it holds.
RunChecksAgain ==
    /\ pc = "returned"
    /\ Len(runs) = 1
    /\ Enter

NextTwice == Next \/ RunChecksAgain

SpecTwice == Init /\ [][NextTwice]_vars

----------------------------------------------------------------------------
(* What the properties speak of.                                           *)

\* The service types run_checks can probe.
SupportedKeys == CheckMethodKeys \cup {"redis"}

\* The candidate list of a configured entry, <<>> when it has none.
ListOf(cfg, key) ==
    IF Has(Get(cfg, key), ListField(key))
    THEN Get(cfg, key)[ListField(key)]
    ELSE <<>>

\* The service label a Finding of the given type carries.
ServiceLabel(key) == IF key = "redis" THEN "Redis" ELSE Upper(key)

\* The type a Finding's label stands for.
TypeOf(f) == CHOOSE key \in SupportedKeys : ServiceLabel(key) = f.service

\* The Findings the current (or last) run_checks call added.
Added == SubSeq(results, base + 1, Len(results))

\* Finding f records exactly the host, port and credential of call c.
Matches(f, c) ==
    /\ f.service = ServiceLabel(c.db_type)
    /\ f.host = c.host
    /\ f.port = c.port
    /\ f.password = c.cred.password
    /\ IF c.db_type = "redis"
       THEN ~Has(f, "username")
       ELSE Has(f, "username") /\ f.username = c.cred.username

\* Call c probed a (type, host, port, credential) triple of the
\* configuration.
Configured(c) ==
    /\ In(c.db_type, config)
    /\ LET e == Get(config, c.db_type) IN
       /\ Has(e, "host") /\ e.host = c.host
       /\ Has(e, "port") /\ e.port = c.port
       /\ \E j \in DOMAIN ListOf(config, c.db_type) :
            IF c.db_type = "redis"
            THEN c.cred = [password |-> ListOf(config, c.db_type)[j]]
            ELSE c.cred = ListOf(config, c.db_type)[j]

\* The calls of the current run that probed the j-th candidate of key.
CallsFor(key, j) ==
    { n \in DOMAIN calls :
        /\ calls[n].db_type = key
        /\ IF key = "redis"
           THEN calls[n].cred.password = ListOf(config, key)[j]
           ELSE calls[n].cred = ListOf(config, key)[j] }

ConfiguredSupported == Keys(config) \cap SupportedKeys

RECURSIVE SumLens(_, _)
SumLens(cfg, S) ==
    IF S = {} THEN 0
    ELSE LET key == CHOOSE x \in S : TRUE IN
         Len(ListOf(cfg, key)) + SumLens(cfg, S \ {key})

\* Every entry of a supported type holds host, port and its candidate
\* list, and every candidate its username and password.
WellFormed(doc) ==
    \A i \in DOMAIN doc :
        doc[i].key \in SupportedKeys =>
            /\ Has(doc[i].val, "host")
            /\ Has(doc[i].val, "port")
            /\ Has(doc[i].val, ListField(doc[i].key))
            /\ doc[i].key # "redis" =>
                 \A j \in DOMAIN doc[i].val.default_credentials :
                    /\ Has(doc[i].val.default_credentials[j], "username")
                    /\ Has(doc[i].val.default_credentials[j], "password")

HasReturned == pc = "returned" \/ (pc = "exited" /\ Len(runs) > 0)

\* The place of a key in the configuration document.
PlaceInConfig(key) == CHOOSE i \in DOMAIN config : config[i].key = key

\* The place of a service type in the order run_checks goes through them.
PlaceInSweep(key) ==
    CASE key = "postgresql" -> 1
      [] key = "mysql"      -> 2
      [] key = "mongodb"    -> 3
      [] key = "mssql"      -> 4
      [] key = "oracle"     -> 5
      [] key = "redis"      -> 6

\* The place of a Finding's credential in its type's candidate list.
PlaceInList(f) ==
    LET key == TypeOf(f)
        l == ListOf(config, key)
    IN  CHOOSE j \in DOMAIN l :
            IF key = "redis" THEN l[j] = f.password
            ELSE l[j].username = f.username /\ l[j].password = f.password

----------------------------------------------------------------------------
(* The properties.                                                         *)

\* C1: once run_checks has returned, the Findings it added are exactly
\* the probe successes: every added Finding records the host, port and
\* credential of a probe call that returned true, every call probed a
\* configured triple, every call that returned true has its Finding, and
\* there are as many added Findings as successful calls.
C1_FindingIffProbeSuccess ==
    HasReturned =>
        /\ \A i \in DOMAIN Added :
             \E n \in DOMAIN calls : calls[n].ret /\ Matches(Added[i], calls[n])
        /\ \A n \in DOMAIN calls :
             /\ Configured(calls[n])
             /\ calls[n].ret => \E i \in DOMAIN Added : Matches(Added[i], calls[n])
        /\ Len(Added) = Cardinality({ n \in DOMAIN calls : calls[n].ret })

\* A run that returned with one probe success and one probe failure.
C1_Witness ==
    /\ pc = "returned"
    /\ Len(results) = 1
    /\ \E n \in DOMAIN calls : calls[n].ret
    /\ \E n \in DOMAIN calls : ~calls[n].ret

\* C2: a run that ends with a configuration error (a required field is
\* missing) has made no probe call.
C2_FailsBeforeAnyProbe ==
    pc = "raised" => Len(calls) = 0

\* C3: a second run_checks on the same checker, whose probes answered as
\* in the first run, returns the sequence the first run returned.
C3_SecondRunReturnsTheSame ==
    (Len(runs) = 2 /\ runs[2].calls = runs[1].calls) => runs[2].ret = runs[1].ret

\* C4 as claimed: the Findings a run returns are ordered by the place of
\* their service type in the configuration and, within one type, by the
\* place of the credential in its list.
C4_OrderOfConfiguration ==
    HasReturned =>
        \A i, j \in DOMAIN Added :
            i < j =>
                \/ PlaceInConfig(TypeOf(Added[i])) < PlaceInConfig(TypeOf(Added[j]))
                \/ /\ TypeOf(Added[i]) = TypeOf(Added[j])
                   /\ PlaceInList(Added[i]) < PlaceInList(Added[j])

\* C4 as amended: the Findings a run adds are ordered by the fixed order
\* postgresql, mysql, mongodb, mssql, oracle, redis of their service
\* type, whatever the order of the keys in the configuration, and within
\* one type by the place of the credential in its list.
C4_OrderOfSweep ==
    HasReturned =>
        \A i, j \in DOMAIN Added :
            i < j =>
                \/ PlaceInSweep(TypeOf(Added[i])) < PlaceInSweep(TypeOf(Added[j]))
                \/ /\ TypeOf(Added[i]) = TypeOf(Added[j])
                   /\ PlaceInList(Added[i]) < PlaceInList(Added[j])

\* A run that returned Findings of two service types which the
\* configuration lists in the opposite order.
C4_Witness ==
    /\ pc = "returned"
    /\ \E i, j \in DOMAIN Added :
         /\ i < j
         /\ PlaceInConfig(TypeOf(Added[i])) > PlaceInConfig(TypeOf(Added[j]))

\* C5: when run_checks returns, every configured key that names no
\* supported service type has been reported as unsupported.
C5_UnsupportedIsReported ==
    HasReturned => \A key \in Keys(config) \ SupportedKeys : key \in errors

\* C6: no candidate of a configured service is ever probed twice in a
\* run, and when the run returns every candidate of every configured
\* supported service has been probed exactly once, nothing else has, and
\* this also after an earlier candidate of the service succeeded.
C6_EveryCandidateOnce ==
    /\ pc \notin {"start", "constructed"} =>
         \A key \in ConfiguredSupported :
            \A j \in DOMAIN ListOf(config, key) :
                Cardinality(CallsFor(key, j)) <= 1
    /\ HasReturned =>
         /\ \A key \in ConfiguredSupported :
              \A j \in DOMAIN ListOf(config, key) :
                  Cardinality(CallsFor(key, j)) = 1
         /\ Len(calls) = SumLens(config, ConfiguredSupported)

\* A run that returned after probing a candidate of a service whose
\* earlier candidate had succeeded.
C6_Witness ==
    /\ pc = "returned"
    /\ \E m, n \in DOMAIN calls :
         /\ m < n
         /\ calls[m].db_type = calls[n].db_type
         /\ calls[m].ret

\* C7: no probe call returns with a connection it opened still open.
C7_NoConnectionLeftOpen ==
    ~lastProbe.open

\* C8: with a well-formed configuration no exception leaves a probe or
\* run_checks, every probe failure is the outcome false, and the run
\* reaches its return with every configured candidate processed.
C8_RunCompletes ==
    (file.readable /\ WellFormed(file.doc)) =>
        /\ [](/\ pc # "raised"
              /\ lastProbe.outcome \in {"rejected", "unreachable"} => ~lastProbe.ret)
        /\ <>(/\ pc = "returned"
              /\ Len(calls) = SumLens(config, ConfiguredSupported))

\* A run that returned although a probe failed, the candidates after the
\* failure processed.
C8_Witness ==
    /\ pc = "returned"
    /\ WellFormed(config)
    /\ Len(calls) = MaxProbes
    /\ ~calls[1].ret
    /\ lastProbe.outcome = "unreachable"

\* C9: the process ends with a non-zero status only when loading the
\* configuration file failed.
C9_NonZeroOnlyOnLoadFailure ==
    (pc = "exited" /\ exitStatus # 0) => ~file.readable

\* C10: the result list is append-only: a step keeps the list as a prefix
\* of the new list, a probe that returns false leaves the list as it is, a
\* probe that returns true adds one Finding at its end, and no other step
\* touches the list.
C10_AppendOnly ==
    [][ /\ Len(results') >= Len(results)
        /\ SubSeq(results', 1, Len(results)) = results
        /\ IF Len(calls') = Len(calls) + 1
           THEN IF calls'[Len(calls')].ret
                THEN /\ Len(results') = Len(results) + 1
                     /\ Matches(results'[Len(results')], calls'[Len(calls')])
                ELSE results' = results
           ELSE results' = results ]_vars

\* A run in which a probe failed after two Findings had been recorded.
C10_Witness ==
    /\ Len(results) = 2
    /\ Len(calls) = 3
    /\ ~calls[3].ret

====
